---- MODULE Spec2Model ----
(***************************************************************************)
(* A model of tideland/go-dynaj: path-addressed access to a dynamically    *)
(* typed JSON document tree.  Strings (paths, keys) are sequences of       *)
(* one-character strings so that splitting, joining and integer parsing    *)
(* are computed the way the Go code computes them.                         *)
(***************************************************************************)
EXTENDS Integers, Sequences, FiniteSets, TLC

\* ------------------------------------------------------------------------
\* Bounds of the model
\* ------------------------------------------------------------------------

\* Longest key list of an enumerated input path.
MaxPathLen == 2

\* Number of operations applied to one document.
MaxSteps == 2

\* ------------------------------------------------------------------------
\* Strings
\* ------------------------------------------------------------------------

\* const Separator = "/"
Separator == "/"

Digits == <<"0", "1", "2", "3", "4", "5", "6", "7", "8", "9">>

IsDigit(c) == \E i \in 1..Len(Digits) : Digits[i] = c

DigitVal(c) == (CHOOSE i \in 1..Len(Digits) : Digits[i] = c) - 1

RECURSIVE DecVal(_)
DecVal(s) ==
    IF s = <<>> THEN 0
    ELSE 10 * DecVal(SubSeq(s, 1, Len(s) - 1)) + DigitVal(s[Len(s)])

\* strconv.Atoi: an optional sign followed by at least one decimal digit.
Atoi(s) ==
    LET signed == s # <<>> /\ Head(s) \in {"-", "+"}
        body   == IF signed THEN Tail(s) ELSE s
    IN  IF body = <<>> \/ \E i \in 1..Len(body) : ~IsDigit(body[i])
        THEN [ok |-> FALSE, n |-> 0]
        ELSE [ok |-> TRUE,
              n  |-> IF signed /\ Head(s) = "-" THEN 0 - DecVal(body)
                     ELSE DecVal(body)]

\* strconv.Itoa
RECURSIVE Itoa(_)
Itoa(n) ==
    IF n < 0 THEN <<"-">> \o Itoa(0 - n)
    ELSE IF n < 10 THEN <<Digits[n + 1]>>
    ELSE Itoa(n \div 10) \o <<Digits[(n % 10) + 1]>>

\* strings.Split(path, Separator): the parts between separators, empty
\* parts included; the empty string gives one empty part.
RECURSIVE StringsSplit(_)
StringsSplit(s) ==
    IF s = <<>> THEN << <<>> >>
    ELSE LET rest == StringsSplit(Tail(s))
         IN  IF Head(s) = Separator
             THEN << <<>> >> \o rest
             ELSE << <<Head(s)>> \o Head(rest) >> \o Tail(rest)

\* strings.Join(parts, Separator)
RECURSIVE StringsJoin(_)
StringsJoin(parts) ==
    IF parts = <<>> THEN <<>>
    ELSE IF Len(parts) = 1 THEN parts[1]
    ELSE parts[1] \o <<Separator>> \o StringsJoin(Tail(parts))

NonEmptyPart(p) == p # <<>>

\* Mutant: the empty parts are kept.
splitPath_KeepsEmpty(path) == StringsSplit(path)

\* splitPath splits and cleans the path into parts.
splitPath(path) == SelectSeq(StringsSplit(path), NonEmptyPart)

\* Mutant: the parts are joined without the leading separator.
pathify_NoLeadingSeparator(parts) == StringsJoin(parts)

\* pathify creates a path out of parts and separator.
pathify(parts) == <<Separator>> \o StringsJoin(parts)

\* ht retrieves head and tail from parts.
ht(parts) ==
    IF Len(parts) = 0 THEN [h |-> <<>>, t |-> <<>>]
    ELSE [h |-> Head(parts), t |-> Tail(parts)]

\* ------------------------------------------------------------------------
\* Nodes
\* ------------------------------------------------------------------------

\* Go's nil: the empty document, a JSON null and an absent map entry.
Nil == [t |-> "nil"]

StringValue(v) == [t |-> "string", v |-> v]
NumberValue(v) == [t |-> "number", v |-> v]
BoolValue(v) == [t |-> "bool", v |-> v]

\* Object = map[string]any
Object(m) == [t |-> "object", m |-> m]

\* Array = []any (index i of Go is position i + 1 here)
Array(a) == [t |-> "array", a |-> a]

EmptyMap == [k \in {} |-> Nil]

\* obj[h] of a Go map: nil for an absent key.
MapGet(m, h) == IF h \in DOMAIN m THEN m[h] ELSE Nil

\* Mutant: the assignment drops the other keys of the map.
MapPut_DropsOthers(m, h, v) == [k \in {h} |-> v]

\* obj[h] = v
MapPut(m, h, v) == [k \in (DOMAIN m) \cup {h} |-> IF k = h THEN v ELSE m[k]]

\* Mutant: the type switch lacks the Array case.
isObjectOrArray_NoArray(node) == node.t = "object"

\* Mutant: the type switch lacks the Object case.
isObjectOrArray_NoObject(node) == node.t = "array"

\* isObjectOrArray checks if the node is an object or an array.
isObjectOrArray(node) == node.t \in {"object", "array"}

\* Mutant: only a string counts as a value.
isValue_OnlyString(node) == node.t = "string"

\* isValue checks if the node is a value.
isValue(node) == node.t \notin {"object", "array", "nil"}

\* ------------------------------------------------------------------------
\* Resolution
\* ------------------------------------------------------------------------

NoError == "none"
Panic == "panic"

\* valueAt returns the value at the given path.  An index below zero
\* passes the range test of the code and indexes the slice out of range.
RECURSIVE valueAt(_, _)
valueAt(node, path) ==
    IF Len(path) = 0 THEN [node |-> node, err |-> NoError]
    ELSE LET h == ht(path).h
             t == ht(path).t
         IN  IF h = <<>> THEN [node |-> node, err |-> NoError]
             ELSE IF node.t = "object"
             THEN IF h \notin DOMAIN node.m
                  THEN [node |-> Nil, err |-> "invalid path"]
                  ELSE valueAt(node.m[h], t)
             ELSE IF node.t = "array"
             THEN LET index == Atoi(h)
                  IN  IF ~index.ok \/ index.n >= Len(node.a)
                      THEN [node |-> Nil, err |-> "invalid path"]
                      ELSE IF index.n < 0
                      THEN [node |-> Nil, err |-> Panic]
                      ELSE valueAt(node.a[index.n + 1], t)
             ELSE [node |-> Nil, err |-> "path is too long"]

\* ------------------------------------------------------------------------
\* Mutation
\* ------------------------------------------------------------------------

Failure(e) == [node |-> Nil, err |-> e]
Success(n) == [node |-> n, err |-> NoError]

\* Mutant: the grown array is allocated but the old elements are not copied.
Grow_NoCopy(a, n) == [i \in 1..n |-> Nil]

\* Mutant: the copy leaves out the first element.
Grow_SkipsFirst(a, n) == [i \in 1..n |-> IF 1 < i /\ i <= Len(a) THEN a[i] ELSE Nil]

\* make(Array, n) followed by copy(tmp, arr): arr padded with nil to n.
Grow(a, n) == [i \in 1..n |-> IF i <= Len(a) THEN a[i] ELSE Nil]

\* createValue creates a value at the end of the keys list.  A negative
\* index makes make() or the slice assignment panic.
RECURSIVE createValue(_, _)
createValue(keys, value) ==
    IF Len(keys) = 0 THEN Success(value)
    ELSE LET h == ht(keys).h
             t == ht(keys).t
             index == Atoi(h)
             sub == createValue(t, value)
         IN  IF index.ok
             THEN IF index.n < 0 \/ sub.err = Panic THEN Failure(Panic)
                  ELSE IF sub.err # NoError THEN Failure(sub.err)
                  ELSE Success(Array([i \in 1..(index.n + 1) |->
                            IF i = index.n + 1 THEN sub.node ELSE Nil]))
             ELSE IF sub.err # NoError THEN Failure(sub.err)
                  ELSE Success(Object(MapPut(EmptyMap, h, sub.node)))

RECURSIVE insertValueInNode(_, _, _)
RECURSIVE insertValueInObject(_, _, _)
RECURSIVE insertValueInArray(_, _, _)

\* Mutant: the last key's value is checked but never stored.
insertValueInObject_NoStore(obj, keys, value) ==
    LET h == ht(keys).h
        t == ht(keys).t
        node == MapGet(obj, h)
    IN  IF Len(t) = 0
        THEN IF isObjectOrArray(node)
             THEN Failure("would corrupt document")
             ELSE Success(Object(obj))
        ELSE IF isValue(node)
             THEN Failure("would corrupt document")
             ELSE LET new == insertValueInNode(node, t, value)
                  IN  IF new.err # NoError THEN Failure(new.err)
                      ELSE Success(Object(MapPut(obj, h, new.node)))

\* insertValueInObject inserts a value in a JSON object at the end of the
\* keys list.
insertValueInObject(obj, keys, value) ==
    LET h == ht(keys).h
        t == ht(keys).t
        node == MapGet(obj, h)
    IN  IF Len(t) = 0
        THEN IF isObjectOrArray(node)
             THEN Failure("would corrupt document")
             ELSE Success(Object(MapPut(obj, h, value)))
        ELSE IF isValue(node)
             THEN Failure("would corrupt document")
             ELSE LET new == insertValueInNode(node, t, value)
                  IN  IF new.err # NoError THEN Failure(new.err)
                      ELSE Success(Object(MapPut(obj, h, new.node)))

\* Mutant: the index is not tested for being negative, so a negative index
\* reaches arr[index] and panics.
insertValueInArray_NoNegativeCheck(arr, path, value) ==
    LET h == ht(path).h
        t == ht(path).t
        index == Atoi(h)
    IN  IF ~index.ok THEN Failure("invalid index")
        ELSE IF index.n < 0 THEN Failure(Panic)
        ELSE LET grown == IF index.n >= Len(arr)
                          THEN Grow(arr, index.n + 1) ELSE arr
                 node == grown[index.n + 1]
             IN  IF Len(t) = 0
                 THEN IF isObjectOrArray(node)
                      THEN Failure("would corrupt document")
                      ELSE Success(Array([grown EXCEPT ![index.n + 1] = value]))
                 ELSE IF isValue(node)
                      THEN Failure("would corrupt document")
                      ELSE LET new == insertValueInNode(node, t, value)
                           IN  IF new.err # NoError THEN Failure(new.err)
                               ELSE Success(Array(
                                   [grown EXCEPT ![index.n + 1] = new.node]))

\* insertValueInArray inserts a value in an array at a given path.
insertValueInArray(arr, path, value) ==
    LET h == ht(path).h
        t == ht(path).t
        index == Atoi(h)
    IN  IF ~index.ok THEN Failure("invalid index")
        ELSE IF index.n < 0 THEN Failure("negative index")
        ELSE LET grown == IF index.n >= Len(arr)
                          THEN Grow(arr, index.n + 1) ELSE arr
                 node == grown[index.n + 1]
             IN  IF Len(t) = 0
                 THEN IF isObjectOrArray(node)
                      THEN Failure("would corrupt document")
                      ELSE Success(Array([grown EXCEPT ![index.n + 1] = value]))
                 ELSE IF isValue(node)
                      THEN Failure("would corrupt document")
                      ELSE LET new == insertValueInNode(node, t, value)
                           IN  IF new.err # NoError THEN Failure(new.err)
                               ELSE Success(Array(
                                   [grown EXCEPT ![index.n + 1] = new.node]))

\* Mutant: an empty keys list returns the node instead of the value.
insertValueInNode_KeepsNode(node, keys, value) ==
    IF Len(keys) = 0 THEN Success(node)
    ELSE IF node.t = "nil" THEN createValue(keys, value)
    ELSE IF node.t = "object" THEN insertValueInObject(node.m, keys, value)
    ELSE IF node.t = "array" THEN insertValueInArray(node.a, keys, value)
    ELSE Failure("document is not a valid JSON structure")

\* Mutant: a scalar node is replaced by fresh structure like nil.
insertValueInNode_OverScalar(node, keys, value) ==
    IF Len(keys) = 0 THEN Success(value)
    ELSE IF node.t = "object" THEN insertValueInObject(node.m, keys, value)
    ELSE IF node.t = "array" THEN insertValueInArray(node.a, keys, value)
    ELSE createValue(keys, value)

\* insertValue recursively inserts a value at the end of the keys list.
insertValueInNode(node, keys, value) ==
    IF Len(keys) = 0 THEN Success(value)
    ELSE IF node.t = "nil" THEN createValue(keys, value)
    ELSE IF node.t = "object" THEN insertValueInObject(node.m, keys, value)
    ELSE IF node.t = "array" THEN insertValueInArray(node.a, keys, value)
    ELSE Failure("document is not a valid JSON structure")

\* Object and Array are a map and a slice: obj[h] = ... and arr[index] = ...
\* write into the tree the document holds, whatever the call returns later.
\* The following operators give the tree a node of the document is after
\* insertValueInNode was called for it.
RECURSIVE StoredInNode(_, _, _)

\* Mutant: the value is stored before the test for a container.
StoredInObject_StoresFirst(obj, keys, value) ==
    LET h == ht(keys).h
        t == ht(keys).t
        node == MapGet(obj, h)
    IN  IF Len(t) = 0 THEN MapPut(obj, h, value)
        ELSE IF isValue(node) THEN obj
        ELSE LET new == insertValueInNode(node, t, value)
             IN  IF new.err # NoError
                 THEN IF h \in DOMAIN obj
                      THEN MapPut(obj, h, StoredInNode(node, t, value))
                      ELSE obj
                 ELSE MapPut(obj, h, new.node)

\* The map after insertValueInObject: obj[h] is assigned after the tests and
\* after the insertion below it succeeded; a failure below it leaves what the
\* call below stored.
StoredInObject(obj, keys, value) ==
    LET h == ht(keys).h
        t == ht(keys).t
        node == MapGet(obj, h)
    IN  IF Len(t) = 0
        THEN IF isObjectOrArray(node) THEN obj ELSE MapPut(obj, h, value)
        ELSE IF isValue(node) THEN obj
        ELSE LET new == insertValueInNode(node, t, value)
             IN  IF new.err # NoError
                 THEN IF h \in DOMAIN obj
                      THEN MapPut(obj, h, StoredInNode(node, t, value))
                      ELSE obj
                 ELSE MapPut(obj, h, new.node)

\* The slice after insertValueInArray: an index at or past the length is
\* served by a copy, the slice of the document keeps its elements; below the
\* length arr[index] is assigned like obj[h].
StoredInArray(arr, path, value) ==
    LET h == ht(path).h
        t == ht(path).t
        index == Atoi(h)
    IN  IF ~index.ok \/ index.n < 0 \/ index.n >= Len(arr) THEN arr
        ELSE LET node == arr[index.n + 1]
             IN  IF Len(t) = 0
                 THEN IF isObjectOrArray(node) THEN arr
                      ELSE [arr EXCEPT ![index.n + 1] = value]
                 ELSE IF isValue(node) THEN arr
                 ELSE LET new == insertValueInNode(node, t, value)
                      IN  IF new.err # NoError
                          THEN [arr EXCEPT ![index.n + 1] = StoredInNode(node, t, value)]
                          ELSE [arr EXCEPT ![index.n + 1] = new.node]

StoredInNode(node, keys, value) ==
    IF Len(keys) = 0 THEN node
    ELSE IF node.t = "object" THEN Object(StoredInObject(node.m, keys, value))
    ELSE IF node.t = "array" THEN Array(StoredInArray(node.a, keys, value))
    ELSE node

\* ------------------------------------------------------------------------
\* Path values and traversal
\* ------------------------------------------------------------------------

\* PathValue is the combination of path and its node value.
PathValue(path, node, err) == [path |-> path, node |-> node, err |-> err]

\* IsUndefined returns true if this value is undefined.
IsUndefined(pv) == pv.node = Nil /\ pv.err = NoError

\* IsError returns true if this value is an error.
IsError(pv) == pv.err # NoError

\* appendKey extends a path by one key.
appendKey(path, key) == pathify(Append(splitPath(path), key))

\* The keys of a map in the iteration order ord (a sequence of keys): Go
\* ranges over a map in an order of its own choosing.
KeysInOrder(m, ord) == SelectSeq(ord, LAMBDA k : k \in DOMAIN m)

\* The processor of a traversal: it records the path value handed to it
\* and fails at its failAt-th invocation (never when failAt = 0).
Visit(acc, pv, failAt) ==
    [visits |-> Append(acc.visits, pv),
     err    |-> IF Len(acc.visits) + 1 = failAt THEN "ouch" ELSE NoError]

\* Mutant: the new error does not keep the text of err.
Wrap_DropsCause(e) == "cannot process"

\* fmt.Errorf("cannot process %q: %v", path, err): the text of err stays
\* part of the new error.  The quoted path and the depth of nesting are
\* left out of the error value.
Wrap(e) ==
    IF e \in {"ouch", "cannot process: ouch"} THEN "cannot process: ouch"
    ELSE "cannot process"

\* Process iterates over the node and all its subnodes and processes them
\* with the passed processor function.  acc carries the invocations made
\* so far; children holds the (key, subnode) pairs still to range over.
RECURSIVE Process(_, _, _, _)
RECURSIVE ProcessChildren(_, _, _, _, _)
\* Mutant: the loop returns after its first child.
ProcessChildren_FirstOnly(path, children, acc, ord, failAt) ==
    IF children = <<>> THEN acc
    ELSE Process(PathValue(appendKey(path, Head(children).key),
                           Head(children).node, NoError), acc, ord, failAt)

ProcessChildren(path, children, acc, ord, failAt) ==
    IF children = <<>> THEN acc
    ELSE LET subpath == appendKey(path, Head(children).key)
             subvalue == PathValue(subpath, Head(children).node, NoError)
             r == Process(subvalue, acc, ord, failAt)
         IN  IF r.err # NoError
             THEN [visits |-> r.visits, err |-> Wrap(r.err)]
             ELSE ProcessChildren(path, Tail(children), r, ord, failAt)

Process(pv, acc, ord, failAt) ==
    IF pv.err # NoError THEN [visits |-> acc.visits, err |-> pv.err]
    ELSE IF pv.node.t = "object"
    THEN IF Cardinality(DOMAIN pv.node.m) = 0
         THEN Visit(acc, PathValue(pv.path, Object(EmptyMap), NoError), failAt)
         ELSE LET ks == KeysInOrder(pv.node.m, ord)
              IN  ProcessChildren(pv.path,
                      [i \in 1..Len(ks) |-> [key |-> ks[i], node |-> pv.node.m[ks[i]]]],
                      acc, ord, failAt)
    ELSE IF pv.node.t = "array"
    THEN IF Len(pv.node.a) = 0
         THEN Visit(acc, PathValue(pv.path, Array(<<>>), NoError), failAt)
         ELSE ProcessChildren(pv.path,
                  [i \in 1..Len(pv.node.a) |->
                      [key |-> Itoa(i - 1), node |-> pv.node.a[i]]],
                  acc, ord, failAt)
    ELSE LET r == Visit(acc, PathValue(pv.path, pv.node, NoError), failAt)
         IN  IF r.err # NoError
             THEN [visits |-> r.visits, err |-> Wrap(r.err)]
             ELSE r

\* Range takes the node and processes it with the passed processor
\* function; it is not working recursively.
RECURSIVE RangeChildren(_, _, _, _)
\* Mutant: a child that is an Object or Array is processed like a value.
RangeChildren_NoContainerCheck(path, children, acc, failAt) ==
    IF children = <<>> THEN acc
    ELSE LET r == Visit(acc, PathValue(appendKey(path, Head(children).key),
                                       Head(children).node, NoError), failAt)
         IN  IF r.err # NoError
             THEN [visits |-> r.visits, err |-> Wrap(r.err)]
             ELSE RangeChildren(path, Tail(children), r, failAt)

RangeChildren(path, children, acc, failAt) ==
    IF children = <<>> THEN acc
    ELSE LET keypath == appendKey(path, Head(children).key)
         IN  IF isObjectOrArray(Head(children).node)
             THEN [visits |-> acc.visits, err |-> "is object or array"]
             ELSE LET r == Visit(acc, PathValue(keypath, Head(children).node, NoError),
                                 failAt)
                  IN  IF r.err # NoError
                      THEN [visits |-> r.visits, err |-> Wrap(r.err)]
                      ELSE RangeChildren(path, Tail(children), r, failAt)

Range(pv, acc, ord, failAt) ==
    IF pv.err # NoError THEN [visits |-> acc.visits, err |-> pv.err]
    ELSE IF pv.node.t = "object"
    THEN LET ks == KeysInOrder(pv.node.m, ord)
         IN  RangeChildren(pv.path,
                 [i \in 1..Len(ks) |-> [key |-> ks[i], node |-> pv.node.m[ks[i]]]],
                 acc, failAt)
    ELSE IF pv.node.t = "array"
    THEN RangeChildren(pv.path,
             [i \in 1..Len(pv.node.a) |->
                 [key |-> Itoa(i - 1), node |-> pv.node.a[i]]],
             acc, failAt)
    ELSE LET r == Visit(acc, PathValue(pv.path, pv.node, NoError), failAt)
         IN  IF r.err # NoError
             THEN [visits |-> r.visits, err |-> Wrap(r.err)]
             ELSE r

\* strings.HasPrefix and strings.TrimPrefix.
HasPrefix(s, prefix) ==
    Len(prefix) <= Len(s) /\ SubSeq(s, 1, Len(prefix)) = prefix
TrimPrefix(s, prefix) ==
    IF HasPrefix(s, prefix) THEN SubSeq(s, Len(prefix) + 1, Len(s)) ELSE s

\* matcher.Matches(pattern, value, false): a glob match of the whole value,
\* case-sensitive.  "*" stands for any run of characters, "?" for any one
\* character, "[...]" for one of the listed characters.
ClassEnd(pattern) == CHOOSE i \in 2..Len(pattern) :
    pattern[i] = "]" /\ \A j \in 2..(i - 1) : pattern[j] # "]"
HasClass(pattern) ==
    pattern[1] = "[" /\ \E i \in 2..Len(pattern) : pattern[i] = "]"

RECURSIVE Matches(_, _)
Matches(pattern, value) ==
    IF pattern = <<>> THEN value = <<>>
    ELSE IF pattern[1] = "*"
    THEN \E n \in 0..Len(value) :
             Matches(Tail(pattern), SubSeq(value, n + 1, Len(value)))
    ELSE IF value = <<>> THEN FALSE
    ELSE IF pattern[1] = "?" THEN Matches(Tail(pattern), Tail(value))
    ELSE IF HasClass(pattern)
    THEN LET e == ClassEnd(pattern)
         IN  /\ \E j \in 2..(e - 1) : pattern[j] = value[1]
             /\ Matches(SubSeq(pattern, e + 1, Len(pattern)), Tail(value))
    ELSE pattern[1] = value[1] /\ Matches(Tail(pattern), Tail(value))

\* Query iterates over the node and all its subnodes and returns all
\* values with paths matching the passed pattern.
\* Mutant: the path is tested as it is, never made relative.
QueryTested_NoTrim(pv, ppv) == ppv.path

QueryTested(pv, ppv) == TrimPrefix(ppv.path, pv.path \o <<Separator>>)

\* Mutant: the values returned carry the path that was tested.
Query_TestedPaths(pv, pattern, ord) ==
    LET r == Process(pv, [visits |-> <<>>, err |-> NoError], ord, 0)
        m == SelectSeq(r.visits, LAMBDA ppv : Matches(pattern, QueryTested(pv, ppv)))
    IN  [pvs |-> [i \in 1..Len(m) |->
                     PathValue(QueryTested(pv, m[i]), m[i].node, NoError)],
         err |-> r.err]

Query(pv, pattern, ord) ==
    LET r == Process(pv, [visits |-> <<>>, err |-> NoError], ord, 0)
    IN  [pvs |-> SelectSeq(r.visits,
                     LAMBDA ppv : Matches(pattern, QueryTested(pv, ppv))),
         err |-> r.err]

\* process processes node recursively (path.go): the traversal behind
\* Document.Process of the documents that carry their separator.  The path
\* value of an empty Object or Array is built without a value.
RECURSIVE process(_, _, _, _, _)
RECURSIVE processFields(_, _, _, _, _)
processFields(parts, children, acc, ord, failAt) ==
    IF children = <<>> THEN acc
    ELSE LET fieldparts == Append(parts, Head(children).key)
             r == process(Head(children).node, fieldparts, acc, ord, failAt)
         IN  IF r.err # NoError
             THEN [visits |-> r.visits, err |-> Wrap(r.err)]
             ELSE processFields(parts, Tail(children), r, ord, failAt)

process(node, parts, acc, ord, failAt) ==
    IF node.t = "object"
    THEN IF Cardinality(DOMAIN node.m) = 0
         THEN Visit(acc, PathValue(pathify(parts), Nil, NoError), failAt)
         ELSE LET ks == KeysInOrder(node.m, ord)
              IN  processFields(parts,
                      [i \in 1..Len(ks) |-> [key |-> ks[i], node |-> node.m[ks[i]]]],
                      acc, ord, failAt)
    ELSE IF node.t = "array"
    THEN IF Len(node.a) = 0
         THEN Visit(acc, PathValue(pathify(parts), Nil, NoError), failAt)
         ELSE processFields(parts,
                  [i \in 1..Len(node.a) |-> [key |-> Itoa(i - 1), node |-> node.a[i]]],
                  acc, ord, failAt)
    ELSE Visit(acc, PathValue(pathify(parts), node, NoError), failAt)

\* Document.process (document.go): the internal recursive function behind
\* Document.Process, which Diff.compare runs on both documents.
RECURSIVE Document_process(_, _, _, _, _)
RECURSIVE Document_processKeys(_, _, _, _, _)
\* Mutant: a child is handed to the processor before it is iterated over.
Document_processKeys_VisitsChild(keys, children, acc, ord, failAt) ==
    IF children = <<>> THEN acc
    ELSE LET objectKeys == Append(keys, Head(children).key)
             seen == Visit(acc, PathValue(pathify(objectKeys), Head(children).node,
                                          NoError), failAt)
             r == Document_process(Head(children).node, objectKeys, seen, ord, failAt)
         IN  Document_processKeys(keys, Tail(children), r, ord, failAt)

Document_processKeys(keys, children, acc, ord, failAt) ==
    IF children = <<>> THEN acc
    ELSE LET objectKeys == Append(keys, Head(children).key)
             r == Document_process(Head(children).node, objectKeys, acc, ord, failAt)
         IN  IF r.err # NoError
             THEN [visits |-> r.visits, err |-> Wrap(r.err)]
             ELSE Document_processKeys(keys, Tail(children), r, ord, failAt)

Document_process(node, keys, acc, ord, failAt) ==
    IF node.t = "object"
    THEN IF Cardinality(DOMAIN node.m) = 0
         THEN Visit(acc, PathValue(pathify(keys), Object(EmptyMap), NoError), failAt)
         ELSE LET ks == KeysInOrder(node.m, ord)
              IN  Document_processKeys(keys,
                      [i \in 1..Len(ks) |-> [key |-> ks[i], node |-> node.m[ks[i]]]],
                      acc, ord, failAt)
    ELSE IF node.t = "array"
    THEN IF Len(node.a) = 0
         THEN Visit(acc, PathValue(pathify(keys), Array(<<>>), NoError), failAt)
         ELSE Document_processKeys(keys,
                  [i \in 1..Len(node.a) |-> [key |-> Itoa(i - 1), node |-> node.a[i]]],
                  acc, ord, failAt)
    ELSE LET r == Visit(acc, PathValue(pathify(keys), node, NoError), failAt)
         IN  IF r.err # NoError
             THEN [visits |-> r.visits, err |-> Wrap(r.err)]
             ELSE r

\* Mutant: the nodes are compared whatever the errors are.
Equals_NodesOnly(pv, to) == pv.node = to.node

\* Equals compares a value with the passed one.
Equals(pv, to) ==
    IF IsUndefined(pv) /\ IsUndefined(to) THEN TRUE
    ELSE IF IsUndefined(pv) \/ IsUndefined(to) THEN FALSE
    ELSE pv.node = to.node

\* ------------------------------------------------------------------------
\* Inputs
\* ------------------------------------------------------------------------

Ka == <<"a">>
Kb == <<"b">>
K0 == <<"0">>
K1 == <<"1">>
K2 == <<"2">>
Km1 == <<"-", "1">>
Kab == <<"a", "/", "b">>
Kb0 == <<"b", "/", "0">>

\* The keys input paths are made of.
Segs == {Ka, Kb, K0, K1, K2, Km1}

\* Key lists of at most n keys.
KeyLists(n) == UNION {[1..k -> Segs] : k \in 0..n}

\* Input paths: the canonical path of every key list, and paths that
\* lack the leading separator or repeat separators.
Paths ==
    {pathify(ks) : ks \in KeyLists(MaxPathLen)}
    \cup {<<>>, Ka, Kab, <<"/", "a", "/", "/", "b", "/">>}

\* Leaf values written by SetValueAt.
Leaves == {Nil, StringValue("foo"), NumberValue("1"), BoolValue("true")}

\* Paths handed to ValueAt before Process, Range and Query.
ReadPaths ==
    {pathify(ks) : ks \in {<<>>, <<Ka>>, <<Kb>>, <<Kb, K0>>, <<Kb, K1>>,
                           <<Kb, K2>>, <<Kb, Km1>>, <<Ka, Kb>>}}
    \cup {<<>>, Ka, <<"/", "a", "/", "/", "b", "/">>}

\* Patterns handed to Query: "*", "a", "/a", "[01]", "0/?".
Patterns ==
    { <<"*">>, <<"a">>, <<"/", "a">>, <<"[", "0", "1", "]">>, <<"0", "/", "?">> }

\* Iteration orders of the keys of a map.
KeyOrders ==
    {<<Ka, Kb, K0, K1, K2, Km1, Kab, Kb0>>, <<Kb0, Kab, Km1, K2, K1, K0, Kb, Ka>>}

\* Documents as Unmarshal returns them (NewDocument gives the root nil).
SeedRoots ==
    { Nil,
      \* {"a":{},"b":[]}
      Object(MapPut(MapPut(EmptyMap, Ka, Object(EmptyMap)), Kb, Array(<<>>))),
      \* {"a":"foo","b":[{"a":"1"},null]}
      Object(MapPut(MapPut(EmptyMap, Ka, StringValue("foo")), Kb,
          Array(<<Object(MapPut(EmptyMap, Ka, NumberValue("1"))), Nil>>))),
      \* {"a/b":"foo","a":{"b":"1"}}
      Object(MapPut(MapPut(EmptyMap, Kab, StringValue("foo")), Ka,
          Object(MapPut(EmptyMap, Kb, NumberValue("1"))))) }

\* Second documents handed to Compare.
CompareDocs ==
    SeedRoots \cup
    { \* {"a":{"b":null}}
      Object(MapPut(EmptyMap, Ka, Object(MapPut(EmptyMap, Kb, Nil)))),
      \* {"a":[null],"b":[]}
      Object(MapPut(MapPut(EmptyMap, Ka, Array(<<Nil>>)), Kb, Array(<<>>))),
      \* {"b/0":"foo","b":[{"a":"1"},null]}
      Object(MapPut(MapPut(EmptyMap, Kb0, StringValue("foo")), Kb,
          Array(<<Object(MapPut(EmptyMap, Ka, NumberValue("1"))), Nil>>))) }

\* ------------------------------------------------------------------------
\* The document and its operations
\* ------------------------------------------------------------------------

VARIABLES
    root,   \* Document.root
    steps,  \* operations applied so far
    op,     \* the last operation and its arguments
    pre,    \* Document.root before the last operation
    res     \* what the last operation returned

vars == <<root, steps, op, pre, res>>

Init ==
    /\ root \in SeedRoots
    /\ steps = 0
    /\ op = [name |-> "Unmarshal"]
    /\ pre = Nil
    /\ res = [err |-> NoError]

\* A panic aborts the program; nothing runs after it.
Running == steps < MaxSteps /\ res.err # Panic

\* SetValueAt sets the value at the given path.
SetValueAt(path, value) ==
    /\ Running
    /\ LET keys == splitPath(path)
           r == insertValueInNode(root, keys, value)
       IN  /\ root' = IF r.err # NoError THEN StoredInNode(root, keys, value)
                                      ELSE r.node
           /\ res' = [err |-> r.err]
    /\ op' = [name |-> "SetValueAt", path |-> path, value |-> value]
    /\ pre' = root
    /\ steps' = steps + 1

\* Mutant: a failure of valueAt is dropped, the path value is undefined.
DocumentValueAt_DropsError(node, path) ==
    LET r == valueAt(node, splitPath(path))
    IN  IF r.err = Panic THEN [err |-> Panic]
        ELSE IF r.err # NoError THEN PathValue(path, Nil, NoError)
        ELSE PathValue(path, r.node, NoError)

\* Document.ValueAt: the path value a document with this root returns for
\* path; a panic of valueAt propagates to the caller.
DocumentValueAt(node, path) ==
    LET r == valueAt(node, splitPath(path))
    IN  IF r.err = Panic THEN [err |-> Panic]
        ELSE IF r.err # NoError THEN PathValue(path, Nil, "invalid path")
        ELSE PathValue(path, r.node, NoError)

\* Document.Length: -1 if valueAt fails, else the size of the node.
DocumentLength(node, path) ==
    LET r == valueAt(node, splitPath(path))
    IN  IF r.err = Panic THEN [err |-> Panic]
        ELSE IF r.err # NoError THEN [err |-> NoError, n |-> -1]
        ELSE IF r.node.t = "object"
        THEN [err |-> NoError, n |-> Cardinality(DOMAIN r.node.m)]
        ELSE IF r.node.t = "array"
        THEN [err |-> NoError, n |-> Len(r.node.a)]
        ELSE [err |-> NoError, n |-> 1]

\* Mutant: the second document is not iterated over.
compare_FirstPassOnly(first, second, ord) ==
    LET fv == Document_process(first, <<>>, [visits |-> <<>>, err |-> NoError], ord, 0).visits
        differs(pv) == ~Equals(pv, DocumentValueAt(second, pv.path))
        d == SelectSeq(fv, differs)
    IN  IF \E i \in 1..Len(fv) : DocumentValueAt(second, fv[i].path).err = Panic
        THEN [err |-> Panic]
        ELSE [err |-> NoError, paths |-> [i \in 1..Len(d) |-> d[i].path]]

\* Diff.compare iterates over both documents looking for different values
\* or even paths; first and second are the roots of the two documents.  A
\* panic of second.ValueAt inside the first processor ends the comparison.
compare(first, second, ord) ==
    LET none == [visits |-> <<>>, err |-> NoError]
        fv == Document_process(first, <<>>, none, ord, 0).visits
        sv == Document_process(second, <<>>, none, ord, 0).visits
        firstPaths == {fv[i].path : i \in 1..Len(fv)}
        differs(pv) == ~Equals(pv, DocumentValueAt(second, pv.path))
        unseen(pv) == pv.path \notin firstPaths
        pathOf(pvs) == [i \in 1..Len(pvs) |-> pvs[i].path]
    IN  IF \E i \in 1..Len(fv) : DocumentValueAt(second, fv[i].path).err = Panic
        THEN [err |-> Panic]
        ELSE [err |-> NoError,
              paths |-> pathOf(SelectSeq(fv, differs)) \o pathOf(SelectSeq(sv, unseen))]

\* ValueAt returns the addressed value.
ValueAt(path) ==
    /\ Running
    /\ res' = DocumentValueAt(root, path)
    /\ op' = [name |-> "ValueAt", path |-> path]
    /\ pre' = root
    /\ steps' = steps + 1
    /\ UNCHANGED root

\* Length returns the number of elements for the given path.
Length(path) ==
    /\ Running
    /\ res' = DocumentLength(root, path)
    /\ op' = [name |-> "Length", path |-> path]
    /\ pre' = root
    /\ steps' = steps + 1
    /\ UNCHANGED root

\* Clear removes the document data.
Clear ==
    /\ Running
    /\ root' = Nil
    /\ res' = [err |-> NoError]
    /\ op' = [name |-> "Clear"]
    /\ pre' = root
    /\ steps' = steps + 1

\* Root returns the root path value.
Root == PathValue(<<Separator>>, root, NoError)

\* Root().Process(processor)
RootProcess(ord, failAt) ==
    /\ Running
    /\ res' = Process(Root, [visits |-> <<>>, err |-> NoError], ord, failAt)
    /\ op' = [name |-> "RootProcess", failAt |-> failAt]
    /\ pre' = root
    /\ steps' = steps + 1
    /\ UNCHANGED root

\* The accumulator of a traversal that has not yet called its processor.
NoVisits == [visits |-> <<>>, err |-> NoError]

\* ValueAt(path).Process(processor)
ValueAtProcess(path, ord, failAt) ==
    /\ Running
    /\ LET pv == DocumentValueAt(root, path)
       IN  res' = IF pv.err = Panic THEN [err |-> Panic]
                  ELSE Process(pv, NoVisits, ord, failAt)
    /\ op' = [name |-> "ValueAtProcess", path |-> path, failAt |-> failAt]
    /\ pre' = root
    /\ steps' = steps + 1
    /\ UNCHANGED root

\* ValueAt(path).Range(processor)
ValueAtRange(path, ord, failAt) ==
    /\ Running
    /\ LET pv == DocumentValueAt(root, path)
       IN  res' = IF pv.err = Panic THEN [err |-> Panic]
                  ELSE Range(pv, NoVisits, ord, failAt)
    /\ op' = [name |-> "ValueAtRange", path |-> path, failAt |-> failAt]
    /\ pre' = root
    /\ steps' = steps + 1
    /\ UNCHANGED root

\* ValueAt(path).Query(pattern); ValueAt("/") is the path value of Root().
ValueAtQuery(path, pattern, ord) ==
    /\ Running
    /\ LET pv == DocumentValueAt(root, path)
       IN  res' = IF pv.err = Panic THEN [err |-> Panic]
                  ELSE Query(pv, pattern, ord)
    /\ op' = [name |-> "ValueAtQuery", path |-> path, pattern |-> pattern]
    /\ pre' = root
    /\ steps' = steps + 1
    /\ UNCHANGED root

\* Document.Process(processor) of a document that carries its separator.
DocumentProcess(ord, failAt) ==
    /\ Running
    /\ res' = process(root, <<>>, NoVisits, ord, failAt)
    /\ op' = [name |-> "DocumentProcess", failAt |-> failAt]
    /\ pre' = root
    /\ steps' = steps + 1
    /\ UNCHANGED root

\* CompareDocuments(d, second): the document is the first of the two.
Compare(second, ord) ==
    /\ Running
    /\ res' = compare(root, second, ord)
    /\ op' = [name |-> "Compare", second |-> second]
    /\ pre' = root
    /\ steps' = steps + 1
    /\ UNCHANGED root

\* CompareDocuments(d, d): a document compared with itself.
CompareSelf(ord) == Compare(root, ord)

Next ==
    \/ \E path \in Paths, value \in Leaves : SetValueAt(path, value)
    \/ \E path \in Paths : ValueAt(path)
    \/ \E path \in Paths : Length(path)
    \/ Clear
    \/ \E ord \in KeyOrders, failAt \in 0..2 : RootProcess(ord, failAt)
    \/ \E path \in ReadPaths, ord \in KeyOrders, failAt \in 0..2 :
           ValueAtProcess(path, ord, failAt)
    \/ \E path \in ReadPaths, ord \in KeyOrders, failAt \in 0..2 :
           ValueAtRange(path, ord, failAt)
    \/ \E path \in ReadPaths, pattern \in Patterns, ord \in KeyOrders :
           ValueAtQuery(path, pattern, ord)
    \/ \E ord \in KeyOrders, failAt \in 0..2 : DocumentProcess(ord, failAt)
    \/ \E second \in CompareDocs, ord \in KeyOrders : Compare(second, ord)
    \/ \E ord \in KeyOrders : CompareSelf(ord)

Spec == Init /\ [][Next]_vars

\* ------------------------------------------------------------------------
\* Vocabulary of the properties
\* ------------------------------------------------------------------------

\* The kinds of node: a container, a Leaf, a Leaf other than null.
IsContainer(node) == node.t \in {"object", "array"}
IsLeaf(node) == ~IsContainer(node)
IsScalar(node) == IsLeaf(node) /\ node # Nil

Unresolved == [ok |-> FALSE, node |-> Nil]

\* The node a key list addresses, by the structure of the tree alone: a key
\* of an Object, an index within [0, length) of an Array.
RECURSIVE NodeAt(_, _)
NodeAt(node, keys) ==
    IF keys = <<>> THEN [ok |-> TRUE, node |-> node]
    ELSE IF node.t = "object"
    THEN IF Head(keys) \in DOMAIN node.m
         THEN NodeAt(node.m[Head(keys)], Tail(keys))
         ELSE Unresolved
    ELSE IF node.t = "array"
    THEN LET i == Atoi(Head(keys))
         IN  IF i.ok /\ i.n >= 0 /\ i.n < Len(node.a)
             THEN NodeAt(node.a[i.n + 1], Tail(keys))
             ELSE Unresolved
    ELSE Unresolved

Resolves(node, keys) == NodeAt(node, keys).ok

\* Every key list that addresses a node of the tree.
RECURSIVE KeyListsOf(_)
KeyListsOf(node) ==
    {<<>>} \cup
    (IF node.t = "object"
     THEN UNION {{<<k>> \o q : q \in KeyListsOf(node.m[k])} : k \in DOMAIN node.m}
     ELSE IF node.t = "array"
     THEN UNION {{<<Itoa(i - 1)>> \o q : q \in KeyListsOf(node.a[i])} :
                    i \in 1..Len(node.a)}
     ELSE {})

Prefix(keys, n) == SubSeq(keys, 1, n)
Suffix(keys, n) == SubSeq(keys, n + 1, Len(keys))

\* The last operation was SetValueAt, with these keys.
IsSet == op.name = "SetValueAt"
SetKeys == splitPath(op.path)
SetOk == IsSet /\ res.err = NoError
Corrupts == "would corrupt document"

\* ------------------------------------------------------------------------
\* C1  Get-after-Set: if SetValueAt(p, v) with a Leaf v succeeds, ValueAt(p)
\* on the same document resolves without error to exactly v; for v = null
\* IsUndefined is true and IsError is false.
\* ------------------------------------------------------------------------
C1_GetAfterSet ==
    SetOk =>
        LET pv == DocumentValueAt(root, op.path)
        IN  /\ pv.err = NoError
            /\ pv.node = op.value
            /\ (op.value = Nil => IsUndefined(pv) /\ ~IsError(pv))

\* A null written two keys deep into a document that held something else.
C1_Witness ==
    /\ SetOk
    /\ Len(SetKeys) = 2
    /\ op.value = Nil
    /\ root # pre
    /\ IsUndefined(DocumentValueAt(root, op.path))

\* ------------------------------------------------------------------------
\* C2  Non-corruption (as amended): after a successful SetValueAt with a
\* non-empty path and a Leaf value, every path that resolved to an Object or
\* Array before still resolves to an Object or Array, and every path that
\* resolved to a non-null Leaf still resolves to a Leaf.
\* ------------------------------------------------------------------------
C2_NonCorruption ==
    (SetOk /\ SetKeys # <<>>) =>
        \A q \in KeyListsOf(pre) :
            LET before == NodeAt(pre, q).node
                after  == NodeAt(root, q)
            IN  /\ after.ok
                /\ IsContainer(before) => IsContainer(after.node)
                /\ IsScalar(before) => IsLeaf(after.node)

\* C2 as stated: every Leaf, the null Leaf included, stays a Leaf.  The
\* paths below the root are enough to decide it (the root of an empty
\* document is set aside).
C2_AsStated ==
    (SetOk /\ SetKeys # <<>>) =>
        \A q \in KeyListsOf(pre) \ {<<>>} :
            LET before == NodeAt(pre, q).node
                after  == NodeAt(root, q)
            IN  /\ after.ok
                /\ IsContainer(before) => IsContainer(after.node)
                /\ IsLeaf(before) => IsLeaf(after.node)

\* A successful write below a document that holds containers and non-null
\* leaves, one of which it overwrote.
C2_Witness ==
    /\ SetOk
    /\ SetKeys # <<>>
    /\ root # pre
    /\ \E q \in KeyListsOf(pre) : q # <<>> /\ IsContainer(NodeAt(pre, q).node)
    /\ IsScalar(NodeAt(pre, SetKeys).node)

\* ------------------------------------------------------------------------
\* C3  Corruption rejection: SetValueAt with a non-empty path fails with
\* 'would corrupt document' whenever its last key addresses an existing
\* Object or Array, or a key before the last addresses an existing non-null
\* Leaf, under an Object as under an Array; overwriting an existing Leaf or
\* an absent key of an Object with the last key succeeds.
\* ------------------------------------------------------------------------
C3_CorruptionRejected ==
    (IsSet /\ SetKeys # <<>>) =>
        LET keys   == SetKeys
            target == NodeAt(pre, keys)
            parent == NodeAt(pre, Prefix(keys, Len(keys) - 1))
        IN  /\ (target.ok /\ IsContainer(target.node)) => res.err = Corrupts
            /\ (\E n \in 1..(Len(keys) - 1) :
                    LET at == NodeAt(pre, Prefix(keys, n))
                    IN  at.ok /\ IsScalar(at.node)) => res.err = Corrupts
            /\ (target.ok /\ IsLeaf(target.node)) => res.err = NoError
            /\ (parent.ok /\ parent.node.t = "object"
                    /\ keys[Len(keys)] \notin DOMAIN parent.node.m)
                => res.err = NoError

\* A write through a non-null Leaf that is an element of an Array was
\* rejected.
C3_Witness ==
    /\ IsSet
    /\ res.err = Corrupts
    /\ Len(SetKeys) = 2
    /\ pre.t = "array"
    /\ LET at == NodeAt(pre, Prefix(SetKeys, 1)) IN at.ok /\ IsScalar(at.node)

\* The structure SetValueAt builds for keys no node exists for yet: an Array
\* with the value at the index for a key that is an integer, else an Object
\* with the one key.
RECURSIVE Synthesised(_, _)
Synthesised(keys, value) ==
    IF keys = <<>> THEN value
    ELSE LET h == Atoi(Head(keys))
             sub == Synthesised(Tail(keys), value)
         IN  IF h.ok
             THEN Array([i \in 1..(h.n + 1) |-> IF i = h.n + 1 THEN sub ELSE Nil])
             ELSE Object([k \in {Head(keys)} |-> sub])

\* The elements of the Array the first n keys address, none if no Array is
\* there.
ElementsAt(node, keys, n) ==
    LET at == NodeAt(node, Prefix(keys, n))
    IN  IF at.ok /\ at.node.t = "array" THEN at.node.a ELSE <<>>

\* Key n + 1 of keys is an index at or past the end of the Array the first n
\* keys address in node, or an index where nothing is there at all.
GrowsAt(node, keys, n) ==
    LET at == NodeAt(node, Prefix(keys, n))
        h  == Atoi(keys[n + 1])
    IN  /\ h.ok
        /\ h.n >= 0
        /\ \/ at.ok /\ at.node.t = "array" /\ h.n >= Len(at.node.a)
           \/ ~at.ok
           \/ at.ok /\ at.node = Nil

\* ------------------------------------------------------------------------
\* C4  Array growth: a successful SetValueAt whose key at an Array position
\* is an integer h >= the array's length (or where no array is there)
\* leaves an array of length h+1 there: the elements it had keep index and
\* value, every other new slot is null, and slot h holds the written value
\* or the structure synthesised for the remaining keys.
\* ------------------------------------------------------------------------
C4_ArrayGrowth ==
    SetOk =>
        \A n \in 0..(Len(SetKeys) - 1) :
            GrowsAt(pre, SetKeys, n) =>
                LET h   == Atoi(SetKeys[n + 1]).n
                    old == ElementsAt(pre, SetKeys, n)
                    new == NodeAt(root, Prefix(SetKeys, n))
                IN  /\ new.ok
                    /\ new.node.t = "array"
                    /\ Len(new.node.a) = h + 1
                    /\ \A j \in 1..Len(old) : new.node.a[j] = old[j]
                    /\ \A j \in (Len(old) + 1)..h : new.node.a[j] = Nil
                    /\ new.node.a[h + 1] = Synthesised(Suffix(SetKeys, n + 1), op.value)

\* An existing, non-empty Array grew by two or more slots.
C4_Witness ==
    /\ SetOk
    /\ \E n \in 0..(Len(SetKeys) - 1) :
           /\ GrowsAt(pre, SetKeys, n)
           /\ Len(ElementsAt(pre, SetKeys, n)) >= 1
           /\ Atoi(SetKeys[n + 1]).n > Len(ElementsAt(pre, SetKeys, n))

\* ------------------------------------------------------------------------
\* C5  Write-side index errors: SetValueAt whose key at an existing Array
\* is no integer fails with 'invalid index', one whose key there is a
\* negative integer fails with 'negative index'; the document is unchanged
\* in both cases.
\* ------------------------------------------------------------------------
C5_WriteIndexErrors ==
    IsSet =>
        \A n \in 0..(Len(SetKeys) - 1) :
            LET at == NodeAt(pre, Prefix(SetKeys, n))
                h  == Atoi(SetKeys[n + 1])
            IN  (at.ok /\ at.node.t = "array") =>
                    /\ ~h.ok => (res.err = "invalid index" /\ root = pre)
                    /\ (h.ok /\ h.n < 0) => (res.err = "negative index" /\ root = pre)

\* A negative index was refused at an Array below the root.
C5_Witness ==
    /\ IsSet
    /\ res.err = "negative index"
    /\ Len(SetKeys) = 2
    /\ NodeAt(pre, Prefix(SetKeys, 1)).node.t = "array"
    /\ root = pre

\* ------------------------------------------------------------------------
\* C6  Root replacement: SetValueAt with a path of zero keys ("" or "/")
\* always succeeds and makes the value the root, whatever the root was, and
\* ValueAt of the root path then returns the value; Clear leaves the
\* document empty.
\* ------------------------------------------------------------------------
C6_RootReplacement ==
    /\ (IsSet /\ SetKeys = <<>>) =>
          /\ res.err = NoError
          /\ root = op.value
          /\ DocumentValueAt(root, <<Separator>>)
                = PathValue(<<Separator>>, op.value, NoError)
          /\ DocumentValueAt(root, <<>>) = PathValue(<<>>, op.value, NoError)
    /\ op.name = "Clear" => root = Nil

\* A non-null Leaf replaced a root that was an Object or Array.
C6_Witness ==
    /\ IsSet
    /\ SetKeys = <<>>
    /\ IsContainer(pre)
    /\ IsScalar(op.value)
    /\ root = op.value

\* The number of children of a container, 1 for a Leaf.
SizeOf(node) ==
    IF node.t = "object" THEN Cardinality(DOMAIN node.m)
    ELSE IF node.t = "array" THEN Len(node.a)
    ELSE 1

\* The keys of the path a read operation was given.
ReadKeys == splitPath(op.path)

\* Some key of the path is met at an Array of the tree and is no index of
\* it: no integer, negative, or at or past its length.
BadIndexAtArray(node, keys) ==
    \E n \in 0..(Len(keys) - 1) :
        LET at == NodeAt(node, Prefix(keys, n))
            h  == Atoi(keys[n + 1])
        IN  /\ at.ok
            /\ at.node.t = "array"
            /\ (~h.ok \/ h.n < 0 \/ h.n >= Len(at.node.a))

\* ------------------------------------------------------------------------
\* C7  Length never fails: Length returns -1 if and only if the path does
\* not resolve, otherwise the number of keys of an Object, of elements of
\* an Array, and 1 for a Leaf (null included).
\* ------------------------------------------------------------------------
C7_LengthTotal ==
    op.name = "Length" =>
        LET at == NodeAt(pre, ReadKeys)
        IN  /\ res.err = NoError
            /\ (res.n = -1) <=> ~at.ok
            /\ at.ok => res.n = SizeOf(at.node)

\* What holds of Length on every call that returns.
C7_LengthWhenReturning ==
    (op.name = "Length" /\ res.err # Panic) =>
        LET at == NodeAt(pre, ReadKeys)
        IN  /\ (res.n = -1) <=> ~at.ok
            /\ at.ok => res.n = SizeOf(at.node)

\* ------------------------------------------------------------------------
\* C8  Null versus unresolved: the PathValue of ValueAt has IsError true if
\* and only if the path does not resolve, IsUndefined true if and only if
\* it resolves to a null Leaf, and never both.
\* ------------------------------------------------------------------------
C8_NullVersusUnresolved ==
    op.name = "ValueAt" =>
        LET at == NodeAt(pre, ReadKeys)
        IN  /\ res.err # Panic
            /\ IsError(res) <=> ~at.ok
            /\ IsUndefined(res) <=> (at.ok /\ at.node = Nil)
            /\ ~(IsError(res) /\ IsUndefined(res))

\* What holds of ValueAt on every call that returns.
C8_WhenReturning ==
    (op.name = "ValueAt" /\ res.err # Panic) =>
        LET at == NodeAt(pre, ReadKeys)
        IN  /\ IsError(res) <=> ~at.ok
            /\ IsUndefined(res) <=> (at.ok /\ at.node = Nil)
            /\ ~(IsError(res) /\ IsUndefined(res))

\* ------------------------------------------------------------------------
\* C9  Resolution at an Array: a key met at an Array that is no integer
\* within [0, length) makes ValueAt return an error PathValue and Length
\* return -1; the call never aborts.
\* ------------------------------------------------------------------------
C9_ArrayResolution ==
    (op.name \in {"ValueAt", "Length"} /\ BadIndexAtArray(pre, ReadKeys)) =>
        /\ res.err # Panic
        /\ op.name = "ValueAt" => IsError(res)
        /\ op.name = "Length" => res.n = -1

\* What holds at an Array for a key that is no integer or is at or past the
\* length: the failure is returned as a value.
C9_NonNegativeOnly ==
    (op.name \in {"ValueAt", "Length"} /\ BadIndexAtArray(pre, ReadKeys)
        /\ res.err # Panic) =>
        /\ op.name = "ValueAt" => IsError(res)
        /\ op.name = "Length" => res.n = -1

\* ------------------------------------------------------------------------
\* Traversal vocabulary
\* ------------------------------------------------------------------------

IsEmptyContainer(node) ==
    \/ node.t = "object" /\ DOMAIN node.m = {}
    \/ node.t = "array" /\ Len(node.a) = 0

\* N: the Leaves of a tree.  K: its empty containers.
NumLeaves(node) ==
    Cardinality({q \in KeyListsOf(node) : IsLeaf(NodeAt(node, q).node)})
NumEmptyContainers(node) ==
    Cardinality({q \in KeyListsOf(node) : IsEmptyContainer(NodeAt(node, q).node)})

\* No Object key of the tree is empty or contains the separator.
CleanKeys(node) ==
    \A q \in KeyListsOf(node) : \A i \in 1..Len(q) :
        q[i] # <<>> /\ \A c \in 1..Len(q[i]) : q[i][c] # Separator

DistinctPaths(visits) ==
    \A i, j \in 1..Len(visits) : i # j => visits[i].path # visits[j].path

ProcessedAll == op.name = "RootProcess" /\ res.err = NoError

\* ------------------------------------------------------------------------
\* C10  Traversal completeness (as amended): for a tree with N Leaves and K
\* empty containers, Process started at the root invokes a visitor that
\* never fails exactly N + K times and never for a non-empty container; the
\* paths of the invocations are pairwise distinct if no Object key of the
\* tree is empty or contains the separator.
\* ------------------------------------------------------------------------
C10_TraversalComplete ==
    ProcessedAll =>
        /\ Len(res.visits) = NumLeaves(pre) + NumEmptyContainers(pre)
        /\ \A i \in 1..Len(res.visits) :
               IsLeaf(res.visits[i].node) \/ IsEmptyContainer(res.visits[i].node)
        /\ CleanKeys(pre) => DistinctPaths(res.visits)

\* C10 as stated: the paths are distinct for every tree.
C10_AsStated ==
    ProcessedAll =>
        /\ Len(res.visits) = NumLeaves(pre) + NumEmptyContainers(pre)
        /\ \A i \in 1..Len(res.visits) :
               IsLeaf(res.visits[i].node) \/ IsEmptyContainer(res.visits[i].node)
        /\ DistinctPaths(res.visits)

\* A complete traversal of a tree with Leaves, an empty container and a
\* non-empty container below the root.
C10_Witness ==
    /\ ProcessedAll
    /\ CleanKeys(pre)
    /\ NumLeaves(pre) >= 2
    /\ NumEmptyContainers(pre) >= 1
    /\ \E q \in KeyListsOf(pre) :
           q # <<>> /\ IsContainer(NodeAt(pre, q).node)
                    /\ ~IsEmptyContainer(NodeAt(pre, q).node)
    /\ Len(res.visits) >= 3

\* ------------------------------------------------------------------------
\* Vocabulary of the traversals started at a path value
\* ------------------------------------------------------------------------

\* The last operation was a Process that returned.
IsProcess ==
    op.name \in {"RootProcess", "ValueAtProcess"} /\ res.err # Panic

\* The path value the last Process, Range or Query was started at.
StartKeys == IF op.name = "RootProcess" THEN <<>> ELSE splitPath(op.path)
StartValue ==
    IF op.name = "RootProcess" THEN PathValue(<<Separator>>, pre, NoError)
    ELSE DocumentValueAt(pre, op.path)

\* The error is the processor's failure, alone or inside a wrapping error.
IsVisitorFailure(e) == e = "ouch"
WrapsVisitorFailure(e) == e = "cannot process: ouch"

\* The processor of the last Process returned its failure.
VisitorFailed ==
    IsProcess /\ op.failAt >= 1 /\ Len(res.visits) >= op.failAt

\* The invocations the last Process made are the first ones a processor
\* that never fails would have received.
StoppedAtFailure ==
    /\ Len(res.visits) = op.failAt
    /\ \E ord \in KeyOrders :
           LET all == Process(StartValue, NoVisits, ord, 0).visits
           IN  Len(all) >= op.failAt /\ res.visits = SubSeq(all, 1, op.failAt)

\* ------------------------------------------------------------------------
\* C11  Traversal abort (as amended): once the visitor returns a failure,
\* Process makes no further visitor invocation for any remaining sibling or
\* subtree, and Process returns a failure that carries the visitor's
\* failure: wrapped with the failing path, except that a Process started at
\* an empty Object or Array returns the visitor's failure itself.
\* ------------------------------------------------------------------------
C11_TraversalAbort ==
    VisitorFailed =>
        /\ StoppedAtFailure
        /\ IF IsEmptyContainer(StartValue.node)
           THEN IsVisitorFailure(res.err)
           ELSE WrapsVisitorFailure(res.err)

\* C11 as stated: the returned failure always wraps the visitor's failure.
C11_AsStated ==
    VisitorFailed => (StoppedAtFailure /\ WrapsVisitorFailure(res.err))

\* The visitor failed at its first invocation while a sibling and a
\* subtree were still to be visited.
C11_Witness ==
    /\ VisitorFailed
    /\ op.failAt = 1
    /\ WrapsVisitorFailure(res.err)
    /\ \A ord \in KeyOrders : Len(Process(StartValue, NoVisits, ord, 0).visits) >= 3

\* The visits made for the node at keys q: those carrying its path.
VisitsAt(q) == {i \in 1..Len(res.visits) : res.visits[i].path = pathify(q)}

\* Every empty Object or Array of the traversed document was handed to the
\* visitor exactly once, at its own path, as the empty container itself.
EmptyContainersVisited ==
    \A q \in KeyListsOf(pre) :
        IsEmptyContainer(NodeAt(pre, q).node) =>
            /\ Cardinality(VisitsAt(q)) = 1
            /\ \A i \in VisitsAt(q) : res.visits[i].node = NodeAt(pre, q).node

\* ------------------------------------------------------------------------
\* C12  Empty containers are visited as themselves: PathValue.Process and
\* the standalone process function each invoke the visitor exactly once for
\* an Object or Array with zero children, at the container's own path,
\* passing the empty container itself as the value.
\* ------------------------------------------------------------------------
C12_EmptyContainers ==
    (op.name \in {"RootProcess", "DocumentProcess"} /\ res.err = NoError) =>
        EmptyContainersVisited

\* What holds of PathValue.Process alone.
C12_PathValueProcess ==
    (op.name = "RootProcess" /\ res.err = NoError) => EmptyContainersVisited

\* What holds of the standalone process: one visit at the container's path.
C12_processVisitsOnce ==
    (op.name = "DocumentProcess" /\ res.err = NoError) =>
        \A q \in KeyListsOf(pre) :
            IsEmptyContainer(NodeAt(pre, q).node) => Cardinality(VisitsAt(q)) = 1

\* ------------------------------------------------------------------------
\* Vocabulary of Range
\* ------------------------------------------------------------------------

\* The immediate children of a container as (path, node) pairs, the path of
\* a child being the container's keys extended by the child's key or index.
ChildrenOf(keys, node) ==
    IF node.t = "object"
    THEN {[path |-> pathify(Append(keys, k)), node |-> node.m[k]] : k \in DOMAIN node.m}
    ELSE {[path |-> pathify(Append(keys, Itoa(i - 1))), node |-> node.a[i]] :
              i \in 1..Len(node.a)}

\* The (path, node) pairs handed to the visitor.
Visited == {[path |-> res.visits[i].path, node |-> res.visits[i].node] :
                i \in 1..Len(res.visits)}

\* The last operation was a Range that returned, its visitor never failing.
IsRange == op.name = "ValueAtRange" /\ res.err # Panic /\ op.failAt = 0

\* ------------------------------------------------------------------------
\* C13  Range contract: with a visitor that never fails, Range on a
\* container whose immediate children are all Leaves invokes the visitor
\* exactly once per child with the child's path; on a container with a
\* child that is an Object or Array it returns an 'is object or array'
\* failure; on a Leaf it invokes the visitor exactly once; on an unresolved
\* PathValue it returns the resolution failure without invoking the
\* visitor.
\* ------------------------------------------------------------------------
C13_RangeContract ==
    IsRange =>
        LET pv == StartValue
            children == ChildrenOf(StartKeys, pv.node)
        IN  IF IsError(pv)
            THEN res.err = pv.err /\ res.visits = <<>>
            ELSE IF IsLeaf(pv.node)
            THEN /\ res.err = NoError
                 /\ res.visits = <<PathValue(op.path, pv.node, NoError)>>
            ELSE IF \E c \in children : IsContainer(c.node)
            THEN res.err = "is object or array"
            ELSE /\ res.err = NoError
                 /\ Len(res.visits) = SizeOf(pv.node)
                 /\ Visited = children

\* Range over a container of at least two Leaves, null among them.
C13_Witness ==
    /\ IsRange
    /\ ~IsError(StartValue)
    /\ IsContainer(StartValue.node)
    /\ SizeOf(StartValue.node) >= 2
    /\ \A c \in ChildrenOf(StartKeys, StartValue.node) : IsLeaf(c.node)
    /\ \E c \in ChildrenOf(StartKeys, StartValue.node) : c.node = Nil
    /\ res.err = NoError

\* ------------------------------------------------------------------------
\* Vocabulary of Query
\* ------------------------------------------------------------------------

\* The last operation was a Query that returned.
IsQuery == op.name = "ValueAtQuery" /\ res.err # Panic

\* sub is a subsequence of all: its elements occur in all in that order.
RECURSIVE IsSubsequence(_, _)
IsSubsequence(sub, all) ==
    IF sub = <<>> THEN TRUE
    ELSE IF all = <<>> THEN FALSE
    ELSE IF Head(sub) = Head(all) THEN IsSubsequence(Tail(sub), Tail(all))
    ELSE IsSubsequence(sub, Tail(all))

\* ------------------------------------------------------------------------
\* C14  Query is a filter of Process: the result of Query is a subsequence,
\* in visitation order, of the (path, value) pairs Process hands to the
\* visitor from the same node, each carrying its full absolute path; for
\* the pattern "*" the result is exactly all of those pairs.
\* ------------------------------------------------------------------------
C14_QueryFiltersProcess ==
    IsQuery =>
        \E ord \in KeyOrders :
            LET all == Process(StartValue, NoVisits, ord, 0)
            IN  /\ res.err = all.err
                /\ IsSubsequence(res.pvs, all.visits)
                /\ op.pattern = <<"*">> => res.pvs = all.visits

\* A Query below the root that returns some but not all of the visited
\* pairs, and a path longer than the string that was tested.
C14_Witness ==
    /\ IsQuery
    /\ res.err = NoError
    /\ StartKeys # <<>>
    /\ Len(res.pvs) >= 1
    /\ \A ord \in KeyOrders :
           Len(res.pvs) < Len(Process(StartValue, NoVisits, ord, 0).visits)

\* The visited path relative to the node the Query was started at, without
\* its leading separator: the keys below the start node, joined.
RelativePath(path) == StringsJoin(Suffix(splitPath(path), Len(StartKeys)))

\* The result of the last Query is what a filter testing the string
\* Tested(v) of each visited v returns.
QueryTests(Tested(_)) ==
    \E ord \in KeyOrders :
        res.pvs = SelectSeq(Process(StartValue, NoVisits, ord, 0).visits,
                            LAMBDA v : Matches(op.pattern, Tested(v)))

\* The start of the last Query: the root path value as Root() returns it;
\* a non-empty container at a canonical path below the root.
QueryAtRoot == IsQuery /\ op.path = <<Separator>>
QueryBelowRoot ==
    /\ IsQuery
    /\ StartKeys # <<>>
    /\ op.path = pathify(StartKeys)
    /\ ~IsError(StartValue)
    /\ IsContainer(StartValue.node)
    /\ ~IsEmptyContainer(StartValue.node)

FullPath(v) == v.path
RelativeTo(v) == RelativePath(v.path)

\* ------------------------------------------------------------------------
\* C15  Query matches relative paths (as amended): for a Query started at a
\* non-empty container below the root, the string tested against the
\* pattern is the visited path relative to the starting node with its
\* leading separator stripped; for a Query started at the document root the
\* visited path is tested in full, leading separator included (the leaf at
\* /a is tested as "/a").
\* ------------------------------------------------------------------------
C15_QueryTestedString ==
    /\ QueryBelowRoot => QueryTests(RelativeTo)
    /\ QueryAtRoot => QueryTests(FullPath)

\* C15 as stated: at the root, too, the relative path is tested.
C15_AsStated ==
    (QueryBelowRoot \/ QueryAtRoot) => QueryTests(RelativeTo)

\* A Query at the root whose pattern "/a" selects the Leaf at /a.
C15_Witness ==
    /\ QueryAtRoot
    /\ op.pattern = <<"/", "a">>
    /\ Len(res.pvs) = 1
    /\ res.pvs[1].path = <<"/", "a">>
    /\ IsLeaf(res.pvs[1].node)

\* ------------------------------------------------------------------------
\* Vocabulary of Process started below the root
\* ------------------------------------------------------------------------

\* The last operation was ValueAt(p).Process with a visitor that never
\* fails.
IsSubProcess == op.name = "ValueAtProcess" /\ op.failAt = 0

\* path is the path of the start node or lies below it.
AtOrBelowStart(path) ==
    LET keys == splitPath(path)
    IN  Len(keys) >= Len(StartKeys) /\ Prefix(keys, Len(StartKeys)) = StartKeys

\* The visits of the last Process are those of Root().Process at or below
\* the start node, with the same paths and values, in the same order.
SubTreeOfRootProcess ==
    \E ord \in KeyOrders :
        res.visits =
            SelectSeq(Process(PathValue(<<Separator>>, pre, NoError), NoVisits, ord, 0).visits,
                      LAMBDA v : AtOrBelowStart(v.path))

C16_AsStatedWhenReturning ==
    (IsSubProcess /\ res.err # Panic) =>
        (Resolves(pre, StartKeys) => (res.err = NoError /\ SubTreeOfRootProcess))

IsCompare == op.name = "Compare"

\* The two documents of the last Compare.
First == pre
Second == op.second

\* The (path, value) pairs Process visits in a document.
VisitedIn(doc) ==
    LET vs == Document_process(doc, <<>>, NoVisits, CHOOSE ord \in KeyOrders : TRUE, 0).visits
    IN  {[path |-> vs[i].path, node |-> vs[i].node] : i \in 1..Len(vs)}
PathsVisitedIn(doc) == {v.path : v \in VisitedIn(doc)}

\* The value the path resolves to in the document is deeply equal to node.
ResolvesEqual(doc, path, node) ==
    LET at == NodeAt(doc, splitPath(path))
    IN  at.ok /\ at.node = node

\* The paths Compare of first and second is to report.
Differing(first, second) ==
    {v.path : v \in {w \in VisitedIn(first) : ~ResolvesEqual(second, w.path, w.node)}}
    \cup (PathsVisitedIn(second) \ PathsVisitedIn(first))

\* The set of the paths a Compare reported.
Reported(r) == {r.paths[i] : i \in 1..Len(r.paths)}

\* ------------------------------------------------------------------------
\* C17  Diff definition: for all documents first and second, the set of
\* paths returned by Compare is exactly {p visited by Process in first : p
\* does not resolve in second, or the value resolved in second is not
\* deeply equal to first's value} united with {p visited by Process in
\* second : p was not visited in first}.
\* ------------------------------------------------------------------------
C17_DiffDefinition ==
    IsCompare => (res.err = NoError /\ Reported(res) = Differing(First, Second))

\* What holds of every Compare that returns.
C17_WhenReturning ==
    (IsCompare /\ res.err # Panic) =>
        (res.err = NoError /\ Reported(res) = Differing(First, Second))

\* No Object key of the document is a negative integer.
NoNegativeKeys(doc) ==
    \A q \in KeyListsOf(doc) : \A i \in 1..Len(q) :
        ~(Atoi(q[i]).ok /\ Atoi(q[i]).n < 0)

\* The Object keys of the document are non-empty, hold no separator and
\* are no negative integers.
PlainKeys(doc) == CleanKeys(doc) /\ NoNegativeKeys(doc)

\* The key list resolves to a null Leaf in the document.
NullAt(doc, q) == NodeAt(doc, q).ok /\ NodeAt(doc, q).node = Nil

\* Null in one document against unresolved in the other is reported, null
\* in both is not.
NullVersusAbsent ==
    \A q \in KeyListsOf(First) \cup KeyListsOf(Second) :
        /\ (NullAt(First, q) /\ ~Resolves(Second, q)) => pathify(q) \in Reported(res)
        /\ (NullAt(Second, q) /\ ~Resolves(First, q)) => pathify(q) \in Reported(res)
        /\ (NullAt(First, q) /\ NullAt(Second, q)) => pathify(q) \notin Reported(res)

C18_AsStatedWhenReturning ==
    (IsCompare /\ res.err # Panic) => NullVersusAbsent

NoDuplicates(paths) ==
    \A i, j \in 1..Len(paths) : i # j => paths[i] # paths[j]

\* Compare of the same two documents, passed in the opposite order.
Opposite == compare(Second, First, CHOOSE ord \in KeyOrders : TRUE)

Symmetric ==
    /\ res.err = NoError
    /\ Opposite.err = NoError
    /\ Reported(res) = Reported(Opposite)
    /\ NoDuplicates(res.paths)
    /\ NoDuplicates(Opposite.paths)

C19_AsStatedWhenReturning ==
    (IsCompare /\ res.err # Panic /\ Opposite.err # Panic) => Symmetric

C20_DiffReflexivity ==
    (IsCompare /\ Second = First /\ CleanKeys(First)) =>
        /\ res.err = NoError
        /\ res.paths = <<>>
        /\ \A v \in VisitedIn(First) :
               LET to == DocumentValueAt(First, v.path)
               IN  to.err = NoError /\ Equals(PathValue(v.path, v.node, NoError), to)

\* A document compared with itself that holds a null, another Leaf, an
\* empty container, an Array and an Object key that reads as an integer.
C20_Witness ==
    /\ IsCompare
    /\ Second = First
    /\ CleanKeys(First)
    /\ res.err = NoError
    /\ \E v \in VisitedIn(First) : v.node = Nil
    /\ \E v \in VisitedIn(First) : IsScalar(v.node)
    /\ \E v \in VisitedIn(First) : IsEmptyContainer(v.node)
    /\ \E q \in KeyListsOf(First) :
           /\ NodeAt(First, q).node.t = "object"
           /\ \E k \in DOMAIN NodeAt(First, q).node.m : Atoi(k).ok

\* What the document holds at the path: a Leaf, an empty container, nothing.
LeafOrEmptyOrAbsent(doc, path) ==
    LET at == NodeAt(doc, splitPath(path))
    IN  ~at.ok \/ IsLeaf(at.node) \/ IsEmptyContainer(at.node)
LeafOrAbsent(doc, path) ==
    LET at == NodeAt(doc, splitPath(path))
    IN  ~at.ok \/ IsLeaf(at.node)

\* The last operation was a Compare that returned its differences.
Compared == IsCompare /\ res.err = NoError

\* ------------------------------------------------------------------------
\* C21  Containers with children are never compared by the diff (as
\* amended): for documents whose Object keys are non-empty and contain no
\* separator, every path reported by Compare is one at which at least one
\* of the two documents holds a Leaf, holds an empty Object or Array, or
\* does not resolve; no path at which both documents hold a container with
\* children is ever reported.
\* ------------------------------------------------------------------------
C21_ContainersNotCompared ==
    (Compared /\ CleanKeys(First) /\ CleanKeys(Second)) =>
        \A p \in Reported(res) :
            LeafOrEmptyOrAbsent(First, p) \/ LeafOrEmptyOrAbsent(Second, p)

\* C21 as stated: at every reported path one of the documents holds a Leaf
\* or does not resolve.
C21_AsStated ==
    Compared =>
        \A p \in Reported(res) : LeafOrAbsent(First, p) \/ LeafOrAbsent(Second, p)

\* The amended statement without its condition on the keys.
C21_AmendedForAllKeys ==
    Compared =>
        \A p \in Reported(res) :
            LeafOrEmptyOrAbsent(First, p) \/ LeafOrEmptyOrAbsent(Second, p)

\* A Compare of documents that hold different containers with children at
\* the same path and reports a Leaf below it.
C21_Witness ==
    /\ Compared
    /\ CleanKeys(First) /\ CleanKeys(Second)
    /\ \E q \in KeyListsOf(First) \cap KeyListsOf(Second) :
           /\ q # <<>>
           /\ IsContainer(NodeAt(First, q).node) /\ ~IsEmptyContainer(NodeAt(First, q).node)
           /\ IsContainer(NodeAt(Second, q).node) /\ ~IsEmptyContainer(NodeAt(Second, q).node)
           /\ NodeAt(First, q).node # NodeAt(Second, q).node
           /\ pathify(q) \notin Reported(res)
           /\ \E p \in Reported(res) :
                  Len(splitPath(p)) > Len(q) /\ Prefix(splitPath(p), Len(q)) = q

\* ---------------------------------------------------------------------
\* Path helpers applied to bounded inputs (path.go, splitPath and pathify)
\* ---------------------------------------------------------------------

MaxPathChars == 4

\* Path strings over the separator and two plain characters.
PathStrings == UNION {[1..n -> {Separator, "a", "1"}] : n \in 0..MaxPathChars}

\* Segments: empty, plain, and holding the separator.
PartSegs == {<<>>, Ka, K1, <<Separator, "a">>, Kab}

PartLists == UNION {[1..n -> PartSegs] : n \in 0..2}

\* Spellings of the paths /a, /a/1 and the root path.
VariantPaths ==
    {<<>>, <<Separator>>, <<Separator, Separator>>,
     <<"a">>, <<Separator, "a">>, <<Separator, "a", Separator>>,
     <<"a", Separator, "1">>, <<Separator, "a", Separator, "1">>,
     <<Separator, "a", Separator, Separator, "1", Separator>>}

\* Documents the variant paths are applied to.
VariantRoots ==
    {Nil,
     Object(MapPut(EmptyMap, Ka, StringValue("foo"))),
     Object(MapPut(EmptyMap, Ka, Array(<<Nil, NumberValue("1")>>))),
     Object(MapPut(EmptyMap, Ka, Object(MapPut(EmptyMap, K1, BoolValue("true")))))}

PathInit ==
    /\ root \in VariantRoots
    /\ steps = 0
    /\ op = [name |-> "Unmarshal"]
    /\ pre = Nil
    /\ res = [err |-> NoError]

\* splitPath applied to a path, and pathify to its result.
SplitPath(path) ==
    /\ Running
    /\ res' = [err |-> NoError, parts |-> splitPath(path),
               path |-> pathify(splitPath(path))]
    /\ op' = [name |-> "splitPath", path |-> path]
    /\ pre' = root
    /\ steps' = steps + 1
    /\ UNCHANGED root

\* pathify applied to parts, and splitPath to its result.
Pathify(parts) ==
    /\ Running
    /\ res' = [err |-> NoError, path |-> pathify(parts),
               parts |-> splitPath(pathify(parts))]
    /\ op' = [name |-> "pathify", parts |-> parts]
    /\ pre' = root
    /\ steps' = steps + 1
    /\ UNCHANGED root

PathNext ==
    \/ \E path \in PathStrings : SplitPath(path)
    \/ \E parts \in PartLists : Pathify(parts)
    \/ \E path \in VariantPaths : ValueAt(path)
    \/ \E path \in VariantPaths : Length(path)
    \/ \E path \in VariantPaths, value \in {StringValue("foo")} : SetValueAt(path, value)

PathSpec == PathInit /\ [][PathNext]_vars

\* A segment is clean when it is non-empty and holds no separator.
CleanSegment(seg) == seg # <<>> /\ \A i \in 1..Len(seg) : seg[i] # Separator

CleanSegments(parts) == \A i \in 1..Len(parts) : CleanSegment(parts[i])

BeginsWithOneSeparator(path) ==
    /\ Len(path) >= 1
    /\ path[1] = Separator
    /\ Len(path) >= 2 => path[2] # Separator

\* The outcome an operation of the document has for another spelling.
SameOutcomeFor(other) ==
    CASE op.name = "ValueAt" ->
             LET pv == DocumentValueAt(pre, other)
             IN  pv.err = res.err /\ pv.node = res.node
      [] op.name = "Length" -> DocumentLength(pre, other) = res
      [] op.name = "SetValueAt" ->
             LET r == insertValueInNode(pre, splitPath(other), op.value)
             IN  /\ r.err = res.err
                 /\ root = IF r.err # NoError THEN pre ELSE r.node
      [] OTHER -> TRUE

SplitsWell ==
    op.name = "splitPath" =>
        /\ CleanSegments(res.parts)
        /\ splitPath(res.path) = res.parts

RoundTrips ==
    (op.name = "pathify" /\ CleanSegments(op.parts)) => res.parts = op.parts

SameNodeAddressed ==
    op.name \in {"ValueAt", "Length", "SetValueAt"} =>
        \A other \in VariantPaths :
            splitPath(other) = splitPath(op.path) => SameOutcomeFor(other)

NotJSON == "document is not a valid JSON structure"

\* SetValueAt with keys was applied to a document whose root is a scalar.
SetOnScalarRoot == IsSet /\ IsScalar(pre) /\ SetKeys # <<>>

\* C23: SetValueAt with a non-empty path on a document whose root is a
\* non-null Leaf always fails, with 'document is not a valid JSON structure',
\* and leaves the root Leaf in place.
C23_SetOnLeafRoot == SetOnScalarRoot => (res.err = NotJSON /\ root = pre)

\* C23 as stated: the failure is 'would corrupt document'.
C23_AsStated == SetOnScalarRoot => (res.err = Corrupts /\ root = pre)

C23_Witness ==
    /\ SetOnScalarRoot
    /\ Len(SetKeys) = 2
    /\ res.err # NoError
    /\ root = StringValue("foo")

\* ------------------------------------------------------------------------
\* The Document with a configured separator (Parse(data, separator),
\* NewDocument(separator)) and its mutation helpers
\* ------------------------------------------------------------------------

RECURSIVE Separator_createValue(_, _)
RECURSIVE Separator_insertValueInNode(_, _, _)
RECURSIVE Separator_insertValueInObject(_, _, _)
RECURSIVE Separator_insertValueInArray(_, _, _)

\* createValue creates a value at a given path: an Object for the last
\* element of the path, an Array for an index before it.  A negative index
\* makes make() panic.
Separator_createValue(path, value) ==
    LET h == ht(path).h
        t == ht(path).t
        index == Atoi(h)
    IN  IF Len(t) = 0 THEN Success(Object(MapPut(EmptyMap, h, value)))
        ELSE LET sub == Separator_createValue(t, value)
             IN  IF index.ok
                 THEN IF index.n < 0 \/ sub.err = Panic THEN Failure(Panic)
                      ELSE IF sub.err # NoError THEN Failure(sub.err)
                      ELSE Success(Array([i \in 1..(index.n + 1) |->
                                IF i = index.n + 1 THEN sub.node ELSE Nil]))
                 ELSE IF sub.err # NoError THEN Failure(sub.err)
                      ELSE Success(Object(MapPut(EmptyMap, h, sub.node)))

\* insertValueInObject inserts a value in a JSON object at a given path.
Separator_insertValueInObject(obj, path, value) ==
    LET h == ht(path).h
        t == ht(path).t
        node == MapGet(obj, h)
    IN  IF Len(t) = 0
        THEN IF isObjectOrArray(node)
             THEN Failure("would corrupt document")
             ELSE Success(Object(MapPut(obj, h, value)))
        ELSE IF isValue(node)
             THEN Failure("would corrupt document")
             ELSE LET new == Separator_insertValueInNode(node, t, value)
                  IN  IF new.err # NoError THEN Failure(new.err)
                      ELSE Success(Object(MapPut(obj, h, new.node)))

\* insertValueInArray inserts a value in an array at a given path.
Separator_insertValueInArray(arr, path, value) ==
    LET h == ht(path).h
        t == ht(path).t
        index == Atoi(h)
    IN  IF ~index.ok THEN Failure("invalid index")
        ELSE IF index.n < 0 THEN Failure("negative index")
        ELSE LET grown == IF index.n >= Len(arr)
                          THEN Grow(arr, index.n + 1) ELSE arr
                 node == grown[index.n + 1]
             IN  IF Len(t) = 0
                 THEN IF isObjectOrArray(node)
                      THEN Failure("would corrupt document")
                      ELSE Success(Array([grown EXCEPT ![index.n + 1] = value]))
                 ELSE IF isValue(node)
                      THEN Failure("would corrupt document")
                      ELSE LET new == Separator_insertValueInNode(node, t, value)
                           IN  IF new.err # NoError THEN Failure(new.err)
                               ELSE Success(Array(
                                   [grown EXCEPT ![index.n + 1] = new.node]))

\* insertValue recursively inserts a value at a given path.
Separator_insertValueInNode(node, path, value) ==
    IF Len(path) = 0 THEN Success(value)
    ELSE IF node.t = "nil" THEN Separator_createValue(path, value)
    ELSE IF node.t = "object" THEN Separator_insertValueInObject(node.m, path, value)
    ELSE IF node.t = "array" THEN Separator_insertValueInArray(node.a, path, value)
    ELSE Failure("document is not a valid JSON structure")

\* SetValueAt sets the value at the given path.
Separator_SetValueAt(path, value) ==
    /\ Running
    /\ LET pathParts == splitPath(path)
           r == Separator_insertValueInNode(root, pathParts, value)
       IN  /\ root' = IF r.err # NoError THEN root ELSE r.node
           /\ res' = [err |-> r.err]
    /\ op' = [name |-> "SetValueAt", path |-> path, value |-> value]
    /\ pre' = root
    /\ steps' = steps + 1

SeparatorNext ==
    \/ \E path \in Paths, value \in Leaves : Separator_SetValueAt(path, value)
    \/ \E path \in Paths : Length(path)

SeparatorSpec == Init /\ [][SeparatorNext]_vars

\* ------------------------------------------------------------------------
\* C24  Synthesis in the Document with a configured separator
\* ------------------------------------------------------------------------

\* Key n + 1 of the keys is an index, and the first n keys address nothing
\* or null before the call.
IndexAtAbsent(node, keys, n) ==
    LET at == NodeAt(node, Prefix(keys, n))
    IN  /\ Atoi(keys[n + 1]).ok
        /\ Atoi(keys[n + 1]).n >= 0
        /\ ~at.ok \/ at.node = Nil

\* The first n keys address an Array of length h + 1 that holds null
\* everywhere but at h.
ArrayUpTo(node, keys, n) ==
    LET at == NodeAt(node, Prefix(keys, n))
        h  == Atoi(keys[n + 1]).n
    IN  /\ at.ok
        /\ at.node.t = "array"
        /\ Len(at.node.a) = h + 1
        /\ \A i \in 1..h : at.node.a[i] = Nil

\* C24: a successful SetValueAt of the Document with a configured separator
\* leaves, wherever it built structure for a key that is an index, an Array
\* of length h + 1 with null at every other index, the last key included.
C24_SeparatorSynthesis ==
    SetOk =>
        \A n \in 0..(Len(SetKeys) - 1) :
            IndexAtAbsent(pre, SetKeys, n) => ArrayUpTo(root, SetKeys, n)

\* The same for every key but the last.
C24_BeforeLastKey ==
    SetOk =>
        \A n \in 0..(Len(SetKeys) - 2) :
            IndexAtAbsent(pre, SetKeys, n) => ArrayUpTo(root, SetKeys, n)

\* An index as last key at an absent position gives an Object with that key.
C24_ObjectForLastKey ==
    /\ SetOk
    /\ Len(SetKeys) = 2
    /\ IndexAtAbsent(pre, SetKeys, 1)
    /\ ~Resolves(pre, Prefix(SetKeys, 1))
    /\ NodeAt(root, Prefix(SetKeys, 1)) =
           [ok |-> TRUE, node |-> Object(MapPut(EmptyMap, SetKeys[2], op.value))]

\* ------------------------------------------------------------------------
\* C25  SetValueAt is total
\* ------------------------------------------------------------------------

\* Some key of the keys is a negative integer where no node exists in node.
NegativeIndexAtAbsent(node, keys) ==
    \E n \in 0..(Len(keys) - 1) :
        LET at == NodeAt(node, Prefix(keys, n))
            h  == Atoi(keys[n + 1])
        IN  /\ h.ok
            /\ h.n < 0
            /\ ~at.ok \/ at.node = Nil

\* C25: SetValueAt returns success or a failure value for every document and
\* every path, one with a negative integer where structure has to be
\* synthesised included; it never aborts.
C25_SetValueAtTotal == IsSet => res.err # Panic

\* SetValueAt aborts exactly when its path holds a negative integer where no
\* node exists and the keys before it are accepted.
C25_AbortsOnlyWhenSynthesising ==
    (IsSet /\ res.err = Panic) => NegativeIndexAtAbsent(pre, SetKeys)

\* SetValueAt("/a/-1", v) on the empty document aborts.
C25_AbortReached ==
    /\ IsSet
    /\ pre = Nil
    /\ SetKeys = <<Ka, Km1>>
    /\ res.err = Panic
    /\ root = pre

\* ------------------------------------------------------------------------
\* C26  A failed Set changes nothing
\* ------------------------------------------------------------------------

\* SetValueAt returned a failure to its caller.
SetFailed == IsSet /\ res.err \notin {NoError, Panic}

\* Every path resolves in both trees to the same value or the same failure,
\* and has the same Length.
SameObservations(before, after) ==
    \A path \in Paths :
        /\ DocumentValueAt(after, path) = DocumentValueAt(before, path)
        /\ DocumentLength(after, path) = DocumentLength(before, path)

\* C26: whenever SetValueAt returns a failure the document is unchanged:
\* the tree is the one before the call, every path resolves to the same value
\* or failure and has the same Length.
C26_FailedSetChangesNothing ==
    SetFailed => (root = pre /\ SameObservations(pre, root))

\* A failed write of two keys, the first of which leads into an Array of the
\* document.
C26_Witness ==
    /\ SetFailed
    /\ Len(SetKeys) = 2
    /\ NodeAt(pre, Prefix(SetKeys, 1)).node.t = "array"
    /\ res.err = Corrupts
    /\ root = pre

\* ------------------------------------------------------------------------
\* Sequences of writes, with an index written with a leading zero and a
\* negative one
\* ------------------------------------------------------------------------

K01 == <<"0", "1">>

WriteSegs == {Ka, Kb, K0, K1, K01, Km1}

WriteKeyLists == UNION {[1..k -> WriteSegs] : k \in 0..MaxPathLen}

WritePaths == {pathify(ks) : ks \in WriteKeyLists}

WriteLeaves == {Nil, StringValue("foo")}

WriteNext ==
    \/ \E path \in WritePaths, value \in WriteLeaves : SetValueAt(path, value)
    \/ \E path \in WritePaths : ValueAt(path)

WriteSpec == Init /\ [][WriteNext]_vars

\* ------------------------------------------------------------------------
\* C27  Frame of a successful Set
\* ------------------------------------------------------------------------

\* Two keys are the same index when both parse as the same integer.
SameIndex(a, b) == Atoi(a).ok /\ Atoi(b).ok /\ Atoi(a).n = Atoi(b).n

\* p is a prefix of q, key by key.
IsPrefixOf(p, q) == Len(p) <= Len(q) /\ Prefix(q, Len(p)) = p

\* p is a prefix of q when keys that are the same index count as equal.
IsIndexPrefixOf(p, q) ==
    /\ Len(p) <= Len(q)
    /\ \A i \in 1..Len(p) : p[i] = q[i] \/ SameIndex(p[i], q[i])

\* The key lists that resolve in a tree: those of its nodes and the input
\* key lists that address one of them.
Resolving(node) == KeyListsOf(node) \cup {ks \in WriteKeyLists : Resolves(node, ks)}

\* q is an Array slot beside the path p that holds null.
NullSlotAlong(node, p, q) ==
    /\ Len(q) >= 1
    /\ Len(q) <= Len(p)
    /\ IsIndexPrefixOf(Prefix(q, Len(q) - 1), p)
    /\ NodeAt(node, Prefix(q, Len(q) - 1)).node.t = "array"
    /\ NodeAt(node, q).node = Nil

\* C27: a successful SetValueAt(p, v) leaves the value at every path q that
\* resolved before and is not related to p as prefix, keys that are the same
\* index counting as equal; the only newly resolvable paths are p, its
\* prefixes and null Array slots created along p.
C27_Frame ==
    SetOk =>
        /\ \A q \in Resolving(pre) :
               (~IsIndexPrefixOf(q, SetKeys) /\ ~IsIndexPrefixOf(SetKeys, q)) =>
                   NodeAt(root, q) = NodeAt(pre, q)
        /\ \A q \in Resolving(root) \ Resolving(pre) :
               IsIndexPrefixOf(q, SetKeys) \/ NullSlotAlong(root, SetKeys, q)

\* C27 as stated: q is any path that is no prefix of p and has no prefix p.
C27_AsStated ==
    SetOk =>
        /\ \A q \in Resolving(pre) :
               (~IsPrefixOf(q, SetKeys) /\ ~IsPrefixOf(SetKeys, q)) =>
                   NodeAt(root, q) = NodeAt(pre, q)
        /\ \A q \in Resolving(root) \ Resolving(pre) :
               IsPrefixOf(q, SetKeys) \/ NullSlotAlong(root, SetKeys, q)

\* A write that grew an Array of the document by more than one slot, beside
\* an element that kept its value.
C27_Witness ==
    /\ SetOk
    /\ Len(SetKeys) = 2
    /\ NodeAt(pre, Prefix(SetKeys, 1)).node.t = "array"
    /\ Len(NodeAt(root, Prefix(SetKeys, 1)).node.a)
           > Len(NodeAt(pre, Prefix(SetKeys, 1)).node.a) + 1
    /\ \E q \in Resolving(pre) :
           /\ Len(q) = 2
           /\ ~IsIndexPrefixOf(q, SetKeys)
           /\ IsScalar(NodeAt(pre, q).node)

\* A write through the index "01" changed the value "/b/1" resolves to.
C27_AliasedIndex ==
    /\ SetOk
    /\ SetKeys = <<Kb, K01>>
    /\ NodeAt(pre, <<Kb, K1>>) = [ok |-> TRUE, node |-> Nil]
    /\ NodeAt(root, <<Kb, K1>>) = [ok |-> TRUE, node |-> StringValue("foo")]

\* ------------------------------------------------------------------------
\* C28  Resolvability is monotonic under Set
\* ------------------------------------------------------------------------

\* Every Object of the tree before is an Object with at least its keys after,
\* every Array an Array that is at least as long.
ContainersKept(before, after) ==
    \A q \in KeyListsOf(before) :
        LET b == NodeAt(before, q).node
            a == NodeAt(after, q)
        IN  /\ b.t = "object" =>
                (a.ok /\ a.node.t = "object" /\ DOMAIN b.m \subseteq DOMAIN a.node.m)
            /\ b.t = "array" =>
                (a.ok /\ a.node.t = "array" /\ Len(b.a) <= Len(a.node.a))

\* C28: a SetValueAt with a non-empty path, successful or failed, keeps
\* every path resolving that resolved before it, for ValueAt as well; no
\* Object key disappears and no Array becomes shorter.
C28_ResolvabilityMonotonic ==
    (IsSet /\ SetKeys # <<>>) =>
        /\ \A q \in Resolving(pre) : Resolves(root, q)
        /\ \A path \in WritePaths :
               DocumentValueAt(pre, path).err = NoError =>
                   DocumentValueAt(root, path).err = NoError
        /\ ContainersKept(pre, root)

\* A write that replaced null below an Object by a container, beside other
\* keys of the Object.
C28_Witness ==
    /\ SetOk
    /\ pre.t = "object"
    /\ Len(SetKeys) = 2
    /\ NodeAt(pre, Prefix(SetKeys, 1)) = [ok |-> TRUE, node |-> Nil]
    /\ IsContainer(NodeAt(root, Prefix(SetKeys, 1)).node)
    /\ Cardinality(DOMAIN pre.m) > 1

\* ------------------------------------------------------------------------
\* C29  Range and container children
\* ------------------------------------------------------------------------

\* Range failed because a child of the node is an Object or Array.
RangeRefused == op.name = "ValueAtRange" /\ res.err = "is object or array"

\* C29: when Range fails because some immediate child is an Object or Array,
\* the visitor has not been invoked for any child of the node.
C29_AllOrNothing == RangeRefused => res.visits = <<>>

\* What Range has done when it fails so: it has handed Leaf children of the
\* node to the visitor, each at most once and not all children; for an Array
\* these are exactly the elements before the first container.
C29_LeavesBeforeContainer ==
    RangeRefused =>
        LET children == ChildrenOf(StartKeys, StartValue.node)
        IN  /\ \A i \in 1..Len(res.visits) :
                   /\ IsLeaf(res.visits[i].node)
                   /\ \E c \in children :
                          c.path = res.visits[i].path /\ c.node = res.visits[i].node
                   /\ \A j \in 1..Len(res.visits) :
                          res.visits[j].path = res.visits[i].path => j = i
            /\ Len(res.visits) < SizeOf(StartValue.node)
            /\ StartValue.node.t = "array" =>
                   /\ IsContainer(StartValue.node.a[Len(res.visits) + 1])
                   /\ \A i \in 1..Len(res.visits) :
                          res.visits[i].node = StartValue.node.a[i]

\* Range failed for a container child after the visitor was invoked for
\* another child.
C29_PartialRange ==
    /\ RangeRefused
    /\ Len(res.visits) >= 1
    /\ StartValue.node.t = "object"

\* ------------------------------------------------------------------------
\* C30  Order independence of unrelated writes
\* ------------------------------------------------------------------------

\* The document and the error after SetValueAt(keys, value) on a document
\* with this root.
AfterSet(node, keys, value) ==
    LET r == insertValueInNode(node, keys, value)
    IN  [root |-> IF r.err # NoError THEN StoredInNode(node, keys, value) ELSE r.node,
         err  |-> r.err]

Unrelated(p, q) == ~IsPrefixOf(p, q) /\ ~IsPrefixOf(q, p)

\* The number of keys p and q have in common at their start.
CommonLen(p, q) ==
    CHOOSE n \in 0..Len(p) :
        /\ n <= Len(q)
        /\ Prefix(p, n) = Prefix(q, n)
        /\ (n < Len(p) /\ n < Len(q)) => p[n + 1] # q[n + 1]

\* No key of the keys is a negative integer.
NoNegativeIndex(keys) ==
    \A i \in 1..Len(keys) : ~(Atoi(keys[i]).ok /\ Atoi(keys[i]).n < 0)

\* No key of p or q is a negative integer, the keys at which p and q part
\* are no two spellings of one index, and either the node they part at is an
\* Object or Array of the tree or the two keys are both integers or both
\* none.
PartCleanly(node, p, q) ==
    LET n  == CommonLen(p, q)
        at == NodeAt(node, Prefix(p, n))
    IN  /\ NoNegativeIndex(p) /\ NoNegativeIndex(q)
        /\ ~SameIndex(p[n + 1], q[n + 1])
        /\ \/ at.ok /\ IsContainer(at.node)
           \/ Atoi(p[n + 1]).ok <=> Atoi(q[n + 1]).ok

\* SetValueAt(q, w) after the last SetValueAt and the two in the opposite
\* order on the document before it have the same errors and the same tree.
SameInBothOrders(q, w) ==
    LET second == AfterSet(root, q, w)
        first  == AfterSet(pre, q, w)
        last   == AfterSet(first.root, SetKeys, op.value)
    IN  /\ first.err = second.err
        /\ last.err = res.err
        /\ last.root = second.root

C30_OrderMatters ==
    /\ SetOk
    /\ pre = Nil
    /\ SetKeys = <<Ka, K0>>
    /\ AfterSet(root, <<Ka, Kb>>, Nil).err = "invalid index"
    /\ AfterSet(pre, <<Ka, Kb>>, Nil).err = NoError
    /\ AfterSet(AfterSet(pre, <<Ka, Kb>>, Nil).root, SetKeys, op.value).err = NoError

====
